---- MODULE Spec2Model ----
(***************************************************************************)
(* The daily PLC counter reset service (PLCResetService) as a state        *)
(* machine: the two cron schedules, the fleet-wide guards of               *)
(* checkAndResetIfNeeded, and the chained retry sequence of resetCounter   *)
(* for every machine.  The Modbus gateway (ModbusService) is an external   *)
(* collaborator: each of its calls completes with a nondeterministic       *)
(* outcome.                                                                *)
(***************************************************************************)
EXTENDS Integers, Sequences, FiniteSets, TLC

----------------------------------------------------------------------------
(* Bounds of the model *)

\* calendar days the wall clock runs through: 0..MaxDay
MaxDay == 1
\* the production counter of a device counts 0..MaxCounter
MaxCounter == 1
\* invocations of checkAndResetIfNeeded that can be past their guard at once
MaxFrames == 2

----------------------------------------------------------------------------
(* Configuration: config/machines.config.js *)

maxRetries == 5
resetHour == 16
resetMinute == 24
\* data.data.length < 3: the register block holds at least three words
minDataLength == 3
\* data.data[2]: the counter's place in the block (Sequences count from 1)
counterIndex == 3
\* currentMinute < (this.resetMinute + 15): the width of the reset window
windowMinutes == 15

\* the fleet: two of the five machine codes of machinesConfig
Machines == {"45051", "45050"}
\* the order in which this.machines is iterated: the order of machinesConfig
machineOrder == <<"45051", "45050">>
Frames == 1..MaxFrames

----------------------------------------------------------------------------
(* Wall-clock time: moment().tz(timezone), to the minute.  A moment the     *)
(* program stores (lastResetDate, lastResetAttempt) is kept to its calendar *)
(* day, the only unit the program compares moments in.                      *)

\* this.lastResetDate = null, lastResetAttempt: null
null == -1

\* the times of day the clock visits: the last minute of the reset window
\* and the minute after it (the pre-check schedule still fires there)
TimesOfDay == {<<16, 38>>, <<16, 39>>}

Moment(d, t) == [day |-> d, hour |-> t[1], minute |-> t[2]]

Moments == {Moment(d, t) : d \in 0..MaxDay, t \in TimesOfDay}

Before(a, b) ==
    \/ a.day < b.day
    \/ a.day = b.day /\ a.hour < b.hour
    \/ a.day = b.day /\ a.hour = b.hour /\ a.minute < b.minute

\* the calendar day of a moment
dayOf(now) == now.day

\* stored.isSame(now, 'second'): the stored start of a cycle is never the
\* second of a later tick
isSameSecond(stored, now) == FALSE

\* stored.isSame(now, 'day')
isSame(stored, now) == stored = dayOf(now)

VARIABLES
    clock,              \* the wall clock
    scheduler,          \* this.scheduler: the primary cron task is active
    preCheckScheduler,  \* this.preCheckScheduler: the pre-check cron task is active
    resetInProgress,    \* this.resetInProgress
    lastResetDate,      \* this.lastResetDate (null or a day)
    machines,           \* this.machines: lastResetAttempt, resetRetryCount, resetStatus
    isConnected,        \* machine.service.isConnected
    frames,             \* the invocations of checkAndResetIfNeeded past the guard
    calls,              \* the resetCounter call chain of each frame and machine
    lastDecision,       \* what shouldPerformReset returned to the last invocation
    cronTasks,          \* the cron tasks created and not stopped, per schedule
    stopAt,             \* stop(): the place in machineOrder whose disconnect()
                        \* it awaits, 0 when no stop() is under way
    stopReturned,       \* stop() has returned and the scheduler was not
                        \* started again since
    probe               \* an evaluation of the window check for a configured
                        \* target: the target, the time of day, the result

vars == <<clock, scheduler, preCheckScheduler, resetInProgress, lastResetDate,
          machines, isConnected, frames, calls, lastDecision, cronTasks, stopAt,
          stopReturned, probe>>

----------------------------------------------------------------------------
(* State after construction *)

\* a call records, for its attempt under way: the length of the block its
\* first read returned (read, -1 before), whether its write got through
\* (wrote), and the counter word its verification read showed (seen)

NoCall == [pc |-> "none", now |-> null, attempts |-> 0, read |-> -1,
           wrote |-> FALSE, seen |-> -1, result |-> "none"]

IdleFrame == [pc |-> "idle", now |-> null]

NoTasks == [primary |-> 0, preCheck |-> 0]

NoProbe == [resetHour |-> -1, resetMinute |-> -1, hour |-> -1, minute |-> -1,
            within |-> "none"]

initializeMachines ==
    [m \in Machines |->
        [lastResetAttempt |-> null, resetRetryCount |-> 0, resetStatus |-> FALSE]]

Init ==
    /\ clock = Moment(0, <<16, 38>>)
    /\ scheduler = FALSE
    /\ preCheckScheduler = FALSE
    /\ resetInProgress = FALSE
    /\ lastResetDate = null
    /\ machines = initializeMachines
    /\ isConnected = [m \in Machines |-> FALSE]
    /\ frames = [f \in Frames |-> IdleFrame]
    /\ calls = [f \in Frames |-> [m \in Machines |-> NoCall]]
    /\ lastDecision = "none"
    /\ cronTasks = NoTasks
    /\ stopAt = 0
    /\ stopReturned = FALSE
    /\ probe = NoProbe

----------------------------------------------------------------------------
(* The gateway's replies (ModbusService: connect, readData, writeRegister) *)

Throw == [threw |-> TRUE, data |-> <<>>]

Reply(data) == [threw |-> FALSE, data |-> data]

\* readData: it throws, or returns no data, a short block, or a block whose
\* third word is the counter the device holds at that time
ReadResponses ==
    {Throw, Reply(<<>>), Reply(<<0, 0>>)}
        \cup {Reply(<<0, 0, c>>) : c \in 0..MaxCounter}

\* data[2] of a reply, -1 for undefined
counterWord(resp) ==
    IF Len(resp.data) >= counterIndex THEN resp.data[counterIndex] ELSE -1

\* the validity check passing every block that was returned, also an empty
\* or a short one
validReadAnyLength(resp) == ~resp.threw

\* !data || !data.data || data.data.length < 3 is false
validRead(resp) == Len(resp.data) >= minDataLength

\* the verification accepts any block that has a counter word
verifiedAnyValue(resp) == counterWord(resp) # -1

\* !verificationData || !verificationData.data || verificationData.data[2] !== 0
\* is false (a missing word is undefined, which is not 0)
verified(resp) == counterWord(resp) = 0

\* the link after a gateway call: a call that throws may have lost it
LinkAfter(m, threw) ==
    IF threw
    THEN \E up \in {isConnected[m], FALSE} :
            isConnected' = [isConnected EXCEPT ![m] = up]
    ELSE UNCHANGED isConnected

----------------------------------------------------------------------------
(* The decision of checkAndResetIfNeeded *)

\* the window check with its upper limit included
isWithinResetWindowInclusive(now) ==
    /\ now.hour = resetHour
    /\ now.minute >= resetMinute
    /\ now.minute <= resetMinute + 15

\* currentHour === this.resetHour && currentMinute >= this.resetMinute
\*     && currentMinute < this.resetMinute + 15, for a service configured
\* with the target targetHour:targetMinute
isWithinResetWindowFor(targetHour, targetMinute, now) ==
    /\ now.hour = targetHour
    /\ now.minute >= targetMinute
    /\ now.minute < targetMinute + windowMinutes

\* isWithinResetWindow() of the service as configured
isWithinResetWindow(now) == isWithinResetWindowFor(resetHour, resetMinute, now)

\* the decision without the resetInProgress guard
shouldPerformResetUnguarded(inProgress, last, now) ==
    IF ~isWithinResetWindow(now) THEN "outsideWindow"
    ELSE IF last # null /\ isSame(last, now) THEN "alreadyToday"
    ELSE "perform"

\* the decision with the resetInProgress guard tested after the window
\* check, on its negative branch only
shouldPerformResetLateGuard(inProgress, last, now) ==
    IF ~isWithinResetWindow(now)
    THEN (IF inProgress THEN "inProgress" ELSE "outsideWindow")
    ELSE IF last # null /\ isSame(last, now) THEN "alreadyToday"
    ELSE "perform"

\* the decision without the lastResetDate guard
shouldPerformResetNoDateGuard(inProgress, last, now) ==
    IF inProgress THEN "inProgress"
    ELSE IF ~isWithinResetWindow(now) THEN "outsideWindow"
    ELSE "perform"

\* shouldPerformReset: "perform" for true; for false the branch that returned
shouldPerformReset(inProgress, last, now) ==
    IF inProgress THEN "inProgress"
    ELSE IF ~isWithinResetWindow(now) THEN "outsideWindow"
    ELSE IF last # null /\ isSame(last, now) THEN "alreadyToday"
    ELSE "perform"

\* resetResults.some(result => result === true)
someSuccessful(results) == \E m \in DOMAIN results : results[m] = "true"

\* resetResults.every(result => result === true)
allSuccessful(results) == \A m \in DOMAIN results : results[m] = "true"

\* the cron expressions of startScheduler: minute and hour fields
primarySchedule(now) ==
    /\ now.minute \in resetMinute..(resetMinute + 14)
    /\ now.hour = resetHour

preCheckMinute == IF resetMinute = 0 THEN 55 ELSE resetMinute - 5

preCheckHour ==
    IF resetMinute = 0 THEN (IF resetHour = 0 THEN 23 ELSE resetHour - 1)
    ELSE resetHour

preCheckSchedule(now) ==
    /\ now.minute \in (preCheckMinute..59) \cup (0..(resetMinute + 19))
    /\ now.hour \in {preCheckHour, resetHour}

----------------------------------------------------------------------------
(* resetCounter *)

\* machine.resetRetryCount <= globalConfig.maxRetries
retryAllowedInclusive(count) == count <= maxRetries

\* machine.resetRetryCount < globalConfig.maxRetries
retryAllowed(count) == count < maxRetries

\* resetCounter without the isConnected check: the first readData is issued
\* whatever the state of the link
BeginAttemptNoConnect(call, m) ==
    [pc |-> "read",
     now |-> dayOf(clock),
     attempts |-> call.attempts + 1,
     read |-> -1,
     wrote |-> FALSE,
     seen |-> -1,
     result |-> "none"]

\* the synchronous start of resetCounter(m): now is taken, and connect or
\* the first readData is issued.  pc names the gateway call the chain waits
\* for ("connect", "read", "write", "verify"; a settle delay counts to the
\* call issued when it ends), "retryWait" the retry timer, "resolved" the end
BeginAttempt(call, m) ==
    [pc |-> IF isConnected[m] THEN "read" ELSE "connect",
     now |-> dayOf(clock),
     attempts |-> call.attempts + 1,
     read |-> -1,
     wrote |-> FALSE,
     seen |-> -1,
     result |-> "none"]

\* the catch block throwing again once the retries are used up
CatchRethrow(f, m) ==
    LET count == machines[m].resetRetryCount + 1 IN
    IF retryAllowed(count)
    THEN /\ machines' = [machines EXCEPT ![m].resetRetryCount = count]
         /\ calls' = [calls EXCEPT ![f][m].pc = "retryWait", ![f][m].read = -1]
    ELSE /\ machines' = [machines EXCEPT ![m].resetRetryCount = 0,
                                         ![m].resetStatus = FALSE]
         /\ calls' = [calls EXCEPT ![f][m].pc = "rejected", ![f][m].read = -1]

\* the catch block returning false at once while the retry it scheduled
\* runs on its own
CatchUnchained(f, m) ==
    LET count == machines[m].resetRetryCount + 1 IN
    IF retryAllowed(count)
    THEN /\ machines' = [machines EXCEPT ![m].resetRetryCount = count]
         /\ calls' = [calls EXCEPT ![f][m].pc = "retryWait", ![f][m].read = -1,
                                   ![f][m].result = "false"]
    ELSE /\ machines' = [machines EXCEPT ![m].resetRetryCount = 0,
                                         ![m].resetStatus = FALSE]
         /\ calls' = [calls EXCEPT ![f][m].pc = "resolved",
                                   ![f][m].read = -1,
                                   ![f][m].result = "false"]

\* the catch block giving up without setting the count back to zero
CatchKeepsCount(f, m) ==
    LET count == machines[m].resetRetryCount + 1 IN
    IF retryAllowed(count)
    THEN /\ machines' = [machines EXCEPT ![m].resetRetryCount = count]
         /\ calls' = [calls EXCEPT ![f][m].pc = "retryWait", ![f][m].read = -1]
    ELSE /\ machines' = [machines EXCEPT ![m].resetRetryCount = count,
                                         ![m].resetStatus = FALSE]
         /\ calls' = [calls EXCEPT ![f][m].pc = "resolved",
                                   ![f][m].read = -1,
                                   ![f][m].result = "false"]

\* the catch block recording every failed attempt in resetStatus
CatchMarksFailed(f, m) ==
    LET count == machines[m].resetRetryCount + 1 IN
    IF retryAllowed(count)
    THEN /\ machines' = [machines EXCEPT ![m].resetRetryCount = count,
                                         ![m].resetStatus = FALSE]
         /\ calls' = [calls EXCEPT ![f][m].pc = "retryWait", ![f][m].read = -1]
    ELSE /\ machines' = [machines EXCEPT ![m].resetRetryCount = 0,
                                         ![m].resetStatus = FALSE]
         /\ calls' = [calls EXCEPT ![f][m].pc = "resolved",
                                   ![f][m].read = -1,
                                   ![f][m].result = "false"]

\* the catch block giving up with the count of every machine set back
CatchClearsFleet(f, m) ==
    LET count == machines[m].resetRetryCount + 1 IN
    IF retryAllowed(count)
    THEN /\ machines' = [machines EXCEPT ![m].resetRetryCount = count]
         /\ calls' = [calls EXCEPT ![f][m].pc = "retryWait", ![f][m].read = -1]
    ELSE /\ machines' = [n \in Machines |->
                            IF n = m
                            THEN [machines[n] EXCEPT !.resetRetryCount = 0,
                                                     !.resetStatus = FALSE]
                            ELSE [machines[n] EXCEPT !.resetRetryCount = 0]]
         /\ calls' = [calls EXCEPT ![f][m].pc = "resolved",
                                   ![f][m].read = -1,
                                   ![f][m].result = "false"]

\* the catch block: count the attempt, then chain a retry or give up
Catch(f, m) ==
    LET count == machines[m].resetRetryCount + 1 IN
    IF retryAllowed(count)
    THEN /\ machines' = [machines EXCEPT ![m].resetRetryCount = count]
         /\ calls' = [calls EXCEPT ![f][m].pc = "retryWait", ![f][m].read = -1]
    ELSE /\ machines' = [machines EXCEPT ![m].resetRetryCount = 0,
                                         ![m].resetStatus = FALSE]
         /\ calls' = [calls EXCEPT ![f][m].pc = "resolved",
                                   ![f][m].read = -1,
                                   ![f][m].result = "false"]

\* await machine.service.connect() returns or throws; after it returns the
\* call waits out the settle delay and issues the first readData
ConnectDone(f, m) ==
    /\ calls[f][m].pc = "connect"
    /\ \/ /\ isConnected' = [isConnected EXCEPT ![m] = TRUE]
          /\ calls' = [calls EXCEPT ![f][m].pc = "read"]
          /\ UNCHANGED machines
       \/ /\ Catch(f, m)
          /\ UNCHANGED isConnected
    /\ UNCHANGED <<clock, scheduler, preCheckScheduler, cronTasks, stopAt,
                   stopReturned, probe, resetInProgress,
                   lastResetDate, frames, lastDecision>>

\* the first readData completes: a valid block issues the write of 0
ReadDone(f, m) ==
    /\ calls[f][m].pc = "read"
    /\ \E resp \in ReadResponses :
          /\ IF ~resp.threw /\ validRead(resp)
             THEN /\ calls' = [calls EXCEPT ![f][m].pc = "write",
                                            ![f][m].read = Len(resp.data)]
                  /\ UNCHANGED machines
             ELSE Catch(f, m)
          /\ LinkAfter(m, resp.threw)
    /\ UNCHANGED <<clock, scheduler, preCheckScheduler, cronTasks, stopAt,
                   stopReturned, probe, resetInProgress,
                   lastResetDate, frames, lastDecision>>

\* writeRegister(counterAddress, 0) returns or throws; after it returns the
\* call waits out the delay before verification and issues the second readData
WriteDone(f, m) ==
    /\ calls[f][m].pc = "write"
    /\ \/ /\ calls' = [calls EXCEPT ![f][m].pc = "verify", ![f][m].wrote = TRUE]
          /\ UNCHANGED <<machines, isConnected>>
       \/ /\ Catch(f, m)
          /\ LinkAfter(m, TRUE)
    /\ UNCHANGED <<clock, scheduler, preCheckScheduler, cronTasks, stopAt,
                   stopReturned, probe, resetInProgress,
                   lastResetDate, frames, lastDecision>>

\* the verification readData completes: success, or a failed attempt
VerifyDone(f, m) ==
    /\ calls[f][m].pc = "verify"
    /\ \E resp \in ReadResponses :
          /\ IF resp.threw THEN Catch(f, m)
             ELSE IF verified(resp)
             THEN /\ machines' = [machines EXCEPT ![m] =
                        [lastResetAttempt |-> calls[f][m].now,
                         resetRetryCount |-> 0,
                         resetStatus |-> TRUE]]
                  /\ calls' = [calls EXCEPT ![f][m].pc = "resolved",
                                            ![f][m].seen = counterWord(resp),
                                            ![f][m].result = "true"]
             ELSE Catch(f, m)
          /\ LinkAfter(m, resp.threw)
    /\ UNCHANGED <<clock, scheduler, preCheckScheduler, cronTasks, stopAt,
                   stopReturned, probe, resetInProgress,
                   lastResetDate, frames, lastDecision>>

\* the retry timer (reconnectDelay) fires: resetCounter is called again and
\* its result resolves the outer call
RetryTimer(f, m) ==
    /\ calls[f][m].pc = "retryWait"
    /\ calls' = [calls EXCEPT ![f][m] = BeginAttempt(@, m)]
    /\ UNCHANGED <<clock, scheduler, preCheckScheduler, cronTasks, stopAt,
                   stopReturned, probe, resetInProgress,
                   lastResetDate, machines, isConnected, frames,
                   lastDecision>>

\* a gateway call of the chain never returns
Hang(f, m) ==
    /\ calls[f][m].pc \in {"connect", "read", "write", "verify"}
    /\ \A g \in Frames, n \in Machines : calls[g][n].pc # "hung"
    /\ calls' = [calls EXCEPT ![f][m].pc = "hung"]
    /\ UNCHANGED <<clock, scheduler, preCheckScheduler, cronTasks, stopAt,
                   stopReturned, probe,
                   resetInProgress, lastResetDate, machines, isConnected, frames,
                   lastDecision>>

----------------------------------------------------------------------------
(* checkAndResetIfNeeded *)

FreeFrames == {f \in Frames : frames[f].pc = "idle"}

\* one invocation, up to its first await: the guards, then the flag and the
\* synchronous start of resetCounter for every machine
checkAndResetIfNeeded ==
    LET decision == shouldPerformReset(resetInProgress, lastResetDate, clock) IN
    /\ lastDecision' = decision
    /\ IF decision = "perform"
       THEN /\ FreeFrames # {}
            /\ LET f == CHOOSE g \in FreeFrames : \A h \in FreeFrames : g <= h IN
               /\ frames' = [frames EXCEPT ![f] = [pc |-> "running", now |-> dayOf(clock)]]
               /\ calls' = [calls EXCEPT ![f] =
                               [m \in Machines |-> BeginAttempt(NoCall, m)]]
            /\ resetInProgress' = TRUE
       ELSE UNCHANGED <<frames, calls, resetInProgress>>
    /\ UNCHANGED <<clock, scheduler, preCheckScheduler, cronTasks, stopAt,
                   stopReturned, probe, lastResetDate, machines,
                   isConnected>>

\* the conclusion without the finally block: the flag is cleared on the
\* successful path only
ConcludeNoFinally(f) ==
    /\ frames[f].pc = "running"
    /\ \A m \in Machines : calls[f][m].pc = "resolved"
    /\ LET resetResults == [m \in Machines |-> calls[f][m].result] IN
       IF allSuccessful(resetResults)
       THEN /\ lastResetDate' = frames[f].now
            /\ resetInProgress' = FALSE
       ELSE UNCHANGED <<lastResetDate, resetInProgress>>
    /\ frames' = [frames EXCEPT ![f] = IdleFrame]
    /\ calls' = [calls EXCEPT ![f] = [m \in Machines |-> NoCall]]
    /\ UNCHANGED <<clock, scheduler, preCheckScheduler, cronTasks, stopAt,
                   stopReturned, probe, machines, isConnected,
                   lastDecision>>

\* the conclusion as soon as one call has resolved (Promise.race in place of
\* Promise.all): the calls still pending run on after the cycle has returned
ConcludeOnFirst(f) ==
    /\ frames[f].pc = "running"
    /\ \E m \in Machines : calls[f][m].pc = "resolved"
    /\ LET resetResults == [m \in Machines |-> calls[f][m].result] IN
       IF allSuccessful(resetResults)
       THEN lastResetDate' = frames[f].now
       ELSE UNCHANGED lastResetDate
    /\ resetInProgress' = FALSE
    /\ frames' = [frames EXCEPT ![f] = IdleFrame]
    /\ calls' = [calls EXCEPT ![f] =
                    [m \in Machines |->
                        IF calls[f][m].pc = "resolved" THEN NoCall ELSE calls[f][m]]]
    /\ UNCHANGED <<clock, scheduler, preCheckScheduler, cronTasks, stopAt,
                   stopReturned, probe, machines, isConnected,
                   lastDecision>>

\* Promise.all has resolved: the outcome is evaluated, the flag is cleared
Conclude(f) ==
    /\ frames[f].pc = "running"
    /\ \A m \in Machines : calls[f][m].pc = "resolved"
    /\ LET resetResults == [m \in Machines |-> calls[f][m].result] IN
       IF allSuccessful(resetResults)
       THEN lastResetDate' = frames[f].now
       ELSE UNCHANGED lastResetDate
    /\ resetInProgress' = FALSE
    /\ frames' = [frames EXCEPT ![f] = IdleFrame]
    /\ calls' = [calls EXCEPT ![f] = [m \in Machines |-> NoCall]]
    /\ UNCHANGED <<clock, scheduler, preCheckScheduler, cronTasks, stopAt,
                   stopReturned, probe, machines, isConnected,
                   lastDecision>>

----------------------------------------------------------------------------
(* The schedules and the environment *)

\* the running cron tasks once stopScheduler has stopped those it holds
stoppedTasks ==
    [primary |-> IF scheduler THEN cronTasks.primary - 1 ELSE cronTasks.primary,
     preCheck |-> IF preCheckScheduler THEN cronTasks.preCheck - 1
                  ELSE cronTasks.preCheck]

\* stopScheduler(): each task the service holds is stopped and let go
stopScheduler ==
    /\ cronTasks' = stoppedTasks
    /\ scheduler' = FALSE
    /\ preCheckScheduler' = FALSE

\* startScheduler() without stopping the tasks it holds
startSchedulerNoStop ==
    /\ cronTasks' = [primary |-> cronTasks.primary + 1,
                     preCheck |-> cronTasks.preCheck + 1]
    /\ scheduler' = TRUE
    /\ preCheckScheduler' = TRUE

\* startScheduler(): tasks already held are stopped first, then one task is
\* created for each schedule
startScheduler ==
    /\ LET held == IF scheduler \/ preCheckScheduler THEN stoppedTasks
                   ELSE cronTasks
       IN  cronTasks' = [primary |-> held.primary + 1,
                         preCheck |-> held.preCheck + 1]
    /\ scheduler' = TRUE
    /\ preCheckScheduler' = TRUE

\* ResetServiceManager.start: connect() to every machine (a failure is
\* logged and the machine stays disconnected), then startScheduler()
start ==
    /\ ~scheduler /\ ~preCheckScheduler
    /\ stopAt = 0
    /\ \E connected \in [Machines -> BOOLEAN] : isConnected' = connected
    /\ startScheduler
    /\ stopReturned' = FALSE
    /\ UNCHANGED <<clock, resetInProgress, lastResetDate, machines,
                   frames, calls, lastDecision, stopAt, probe>>

\* a call of startScheduler() on the running service
CallStartScheduler ==
    /\ startScheduler
    /\ stopReturned' = FALSE
    /\ UNCHANGED <<clock, resetInProgress, lastResetDate, machines, isConnected,
                   frames, calls, lastDecision, stopAt, probe>>

\* a call of stopScheduler() on the running service
CallStopScheduler ==
    /\ stopScheduler
    /\ UNCHANGED <<clock, resetInProgress, lastResetDate, machines, isConnected,
                   frames, calls, lastDecision, stopAt, stopReturned, probe>>

\* the loop of stop() from place i on: the first machine found connected is
\* the next whose disconnect() is awaited, 0 when there is none
nextToDisconnect(i) ==
    LET connected == {j \in i..Len(machineOrder) : isConnected[machineOrder[j]]}
    IN  IF connected = {} THEN 0
        ELSE CHOOSE j \in connected : \A k \in connected : j <= k

\* stop() up to its first await: stopScheduler(), then the loop up to the
\* first disconnect()
stop ==
    /\ stopAt = 0
    /\ stopScheduler
    /\ stopAt' = nextToDisconnect(1)
    /\ stopReturned' = (stopReturned \/ stopAt' = 0)
    /\ UNCHANGED <<clock, resetInProgress, lastResetDate, machines, isConnected,
                   frames, calls, lastDecision, probe>>

\* the awaited disconnect() returns, the link closed, or throws, which is
\* logged; the loop of stop() goes on with the machines after it
DisconnectDone ==
    /\ stopAt > 0
    /\ \/ isConnected' = [isConnected EXCEPT ![machineOrder[stopAt]] = FALSE]
       \/ UNCHANGED isConnected
    /\ stopAt' = nextToDisconnect(stopAt + 1)
    /\ stopReturned' = (stopReturned \/ stopAt' = 0)
    /\ UNCHANGED <<clock, scheduler, preCheckScheduler, cronTasks,
                   resetInProgress, lastResetDate, machines, frames, calls,
                   lastDecision, probe>>

PrimaryTick ==
    /\ scheduler
    /\ primarySchedule(clock)
    /\ checkAndResetIfNeeded

PreCheckTick ==
    /\ preCheckScheduler
    /\ preCheckSchedule(clock)
    /\ checkAndResetIfNeeded

\* time passes: the clock moves to the next moment it visits
AdvanceClock ==
    /\ \E later \in Moments :
          /\ Before(clock, later)
          /\ \A other \in Moments : Before(clock, other) => ~Before(other, later)
          /\ clock' = later
    /\ UNCHANGED <<scheduler, preCheckScheduler, cronTasks, stopAt,
                   stopReturned, probe, resetInProgress, lastResetDate,
                   machines, isConnected, frames, calls, lastDecision>>

\* the link to the device drops while no gateway call is using it
LinkDrop(m) ==
    /\ isConnected[m]
    /\ \A f \in Frames : calls[f][m].pc \in {"none", "retryWait", "resolved"}
    /\ isConnected' = [isConnected EXCEPT ![m] = FALSE]
    /\ UNCHANGED <<clock, scheduler, preCheckScheduler, cronTasks, stopAt,
                   stopReturned, probe, resetInProgress,
                   lastResetDate, machines, frames, calls, lastDecision>>

WorkerStep(f, m) ==
    \/ ConnectDone(f, m)
    \/ ReadDone(f, m)
    \/ WriteDone(f, m)
    \/ VerifyDone(f, m)
    \/ RetryTimer(f, m)

Next ==
    \/ start
    \/ PrimaryTick
    \/ PreCheckTick
    \/ AdvanceClock
    \/ \E f \in Frames, m \in Machines : WorkerStep(f, m)
    \/ \E f \in Frames : Conclude(f)
    \/ \E m \in Machines : LinkDrop(m)

Spec == Init /\ [][Next]_vars

\* every pending gateway call and timer completes, and a resolved Promise.all
\* is continued
Progress ==
    \/ \E f \in Frames, m \in Machines : WorkerStep(f, m)
    \/ \E f \in Frames : Conclude(f)

LiveSpec == Spec /\ WF_vars(Progress)

\* a service is configured with a target hour and minute
Configure ==
    /\ probe = NoProbe
    /\ \E h \in 0..23, mi \in 0..59 :
          probe' = [NoProbe EXCEPT !.resetHour = h, !.resetMinute = mi]
    /\ UNCHANGED <<clock, scheduler, preCheckScheduler, cronTasks, stopAt,
                   stopReturned, resetInProgress, lastResetDate, machines,
                   isConnected, frames, calls, lastDecision>>

\* isWithinResetWindow() is called at some time of day
Evaluate ==
    /\ probe.resetHour # -1
    /\ probe.within = "none"
    /\ \E h \in 0..23, mi \in 0..59 :
          probe' = [probe EXCEPT
                       !.hour = h,
                       !.minute = mi,
                       !.within = IF isWithinResetWindowFor(probe.resetHour,
                                        probe.resetMinute,
                                        [hour |-> h, minute |-> mi])
                                  THEN "true" ELSE "false"]
    /\ UNCHANGED <<clock, scheduler, preCheckScheduler, cronTasks, stopAt,
                   stopReturned, resetInProgress, lastResetDate, machines,
                   isConnected, frames, calls, lastDecision>>

\* the window check by itself, over every configuration and time of day
WindowNext ==
    \/ Configure
    \/ Evaluate

WindowSpec == Init /\ [][WindowNext]_vars

\* the service with its lifecycle calls made at any time of one minute of
\* the reset window
LifecycleNext ==
    \/ start
    \/ PrimaryTick
    \/ PreCheckTick
    \/ \E f \in Frames, m \in Machines : WorkerStep(f, m)
    \/ \E f \in Frames : Conclude(f)
    \/ \E m \in Machines : LinkDrop(m)
    \/ CallStartScheduler
    \/ CallStopScheduler
    \/ stop
    \/ DisconnectDone

LifecycleSpec == Init /\ [][LifecycleNext]_vars

\* the service with a gateway that may leave one call unanswered for ever
HangNext ==
    \/ Next
    \/ \E f \in Frames, m \in Machines : Hang(f, m)

HangSpec == Init /\ [][HangNext]_vars /\ WF_vars(Progress)

----------------------------------------------------------------------------
(* Vocabulary of the properties *)

RunningFrames == {f \in Frames : frames[f].pc = "running"}

\* a step in which an invocation gets past the guards
CycleStarts(f) == frames[f].pc = "idle" /\ frames'[f].pc = "running"

\* a step in which a cycle returns
CycleConcludes(f) == frames[f].pc = "running" /\ frames'[f].pc = "idle"

\* a step in which an attempt on m begins
AttemptBegins(f, m) == calls'[f][m].attempts > calls[f][m].attempts

\* a step in which the call on m resolves to success
Succeeds(f, m) == calls[f][m].result # "true" /\ calls'[f][m].result = "true"

\* a step in which an attempt on m ends as a failed attempt: counted and
\* followed by a retry, or counted as the last one and given up
FailsAndRetries(f, m) ==
    /\ calls'[f][m].pc = "retryWait"
    /\ machines'[m].resetRetryCount = machines[m].resetRetryCount + 1
    /\ machines'[m].resetRetryCount < maxRetries
    /\ machines'[m].resetStatus = machines[m].resetStatus
    /\ machines'[m].lastResetAttempt = machines[m].lastResetAttempt

FailsAndGivesUp(f, m) ==
    /\ calls'[f][m].pc = "resolved"
    /\ calls'[f][m].result = "false"
    /\ machines[m].resetRetryCount + 1 >= maxRetries
    /\ machines'[m].resetRetryCount = 0
    /\ machines'[m].resetStatus = FALSE
    /\ machines'[m].lastResetAttempt = machines[m].lastResetAttempt

\* the primary window [resetHour:resetMinute, resetHour:resetMinute + 15)
InPrimaryWindow(now) ==
    /\ now.hour = resetHour
    /\ now.minute \in resetMinute..(resetMinute + 14)

DoneToday == lastResetDate # null /\ lastResetDate = clock.day

\* no cycle runs, and the last cycle left some machines reset and some not
PartlyFailed ==
    /\ RunningFrames = {}
    /\ \E m \in Machines : machines[m].resetStatus
    /\ \E m \in Machines :
          ~machines[m].resetStatus /\ machines[m].resetRetryCount = 0

----------------------------------------------------------------------------
(* C1: under any interleaving of ticks of both schedules with gateway      *)
(* completions and retry timers, at most one fleet-wide cycle is between   *)
(* setting and clearing resetInProgress.                                   *)
C1_AtMostOneCycle ==
    /\ Cardinality(RunningFrames) <= 1
    /\ resetInProgress <=> RunningFrames # {}

\* a tick arrived while a cycle had a retry timer pending
C1_Witness ==
    /\ lastDecision = "inProgress"
    /\ \E f \in RunningFrames :
          /\ \E m \in Machines : calls[f][m].pc = "retryWait"
          /\ \E m \in Machines : calls[f][m].pc \in {"read", "write", "verify"}

(* C2: an invocation of checkAndResetIfNeeded while resetInProgress is true *)
(* is a no-op: no attempt begins, and resetInProgress, lastResetDate and    *)
(* every machine's reset state stay as they are.                            *)
C2_InFlightInvocationIsNoOp ==
    [][resetInProgress =>
          /\ \A f \in Frames : ~CycleStarts(f)
          /\ \A f \in Frames, m \in Machines :
                AttemptBegins(f, m) => calls[f][m].pc = "retryWait"
          /\ lastDecision' # lastDecision =>
                /\ lastDecision' = "inProgress"
                /\ UNCHANGED <<resetInProgress, lastResetDate, machines,
                               isConnected, frames, calls>>]_vars

\* the second of two invocations found the first one's cycle in flight
C2_Witness ==
    /\ resetInProgress
    /\ lastDecision = "inProgress"
    /\ Cardinality(RunningFrames) = 1
    /\ \A f \in RunningFrames, m \in Machines : calls[f][m].attempts = 1

(* C3: a cycle in which every machine resolved to success sets             *)
(* lastResetDate to the day the cycle started on; while lastResetDate is   *)
(* the clock's day no cycle starts and no call on a device is pending or   *)
(* begun.                                                                  *)
C3_SuccessSuppressesSameDay ==
    [][/\ \A f \in Frames :
            CycleConcludes(f) /\ (\A m \in Machines : calls[f][m].result = "true")
                => lastResetDate' = frames[f].now
       /\ DoneToday =>
            /\ RunningFrames = {}
            /\ \A f \in Frames : ~CycleStarts(f)
            /\ \A f \in Frames, m \in Machines : calls[f][m].pc = "none"
            /\ UNCHANGED <<calls, frames, machines, resetInProgress,
                           lastResetDate>>]_vars

\* an in-window tick came on the day of a fully successful cycle
C3_Witness ==
    /\ DoneToday
    /\ InPrimaryWindow(clock)
    /\ lastDecision = "alreadyToday"
    /\ \A m \in Machines : machines[m].resetStatus

(* C4: a cycle in which some machine gave up leaves lastResetDate as it    *)
(* was; after it the date guard does not hold for the clock's day, and     *)
(* every cycle that starts begins an attempt on every machine of the       *)
(* fleet, also on one that is already reset.                               *)
C4_PartialFailureRerunsFleet ==
    [][/\ \A f \in Frames :
            CycleConcludes(f) /\ (\E m \in Machines : calls[f][m].result # "true")
                => lastResetDate' = lastResetDate
       /\ PartlyFailed => ~DoneToday
       /\ \A f \in Frames :
            CycleStarts(f) =>
                \A m \in Machines :
                    /\ calls'[f][m].attempts = 1
                    /\ calls'[f][m].pc \in {"connect", "read"}]_vars

\* on day 0 a new cycle attempts again a machine that an earlier cycle of
\* the day had reset, after the other machine had given up
C4_Witness ==
    /\ clock.day = 0
    /\ \E f \in RunningFrames : \E m1, m2 \in Machines :
          /\ machines[m1].resetStatus
          /\ machines[m1].lastResetAttempt = 0
          /\ calls[f][m1].pc \in {"connect", "read", "write", "verify"}
          /\ calls[f][m1].attempts = 1
          /\ ~machines[m2].resetStatus
          /\ calls[f][m2].attempts = 1

(* C5: if every pending gateway call and timer completes, a started cycle  *)
(* clears resetInProgress in the end; the flag is false whenever no cycle  *)
(* is running.                                                             *)
C5_GuardIsCleared ==
    /\ resetInProgress ~> ~resetInProgress
    /\ [](RunningFrames = {} => ~resetInProgress)

\* a cycle with a machine that gave up has returned and the flag is clear
C5_Witness ==
    /\ ~resetInProgress
    /\ RunningFrames = {}
    /\ lastDecision = "perform"
    /\ \E m \in Machines : ~machines[m].resetStatus
    /\ \E m \in Machines : machines[m].resetStatus

(* C6: a call that resolves to failure has made exactly maxRetries         *)
(* attempts and leaves resetRetryCount 0 and resetStatus false; no call    *)
(* makes more than maxRetries attempts, and an attempt begins only at the  *)
(* start of a cycle or from the retry timer of a failed attempt.           *)
C6_ExactlyMaxRetriesAttempts ==
    /\ [](\A f \in Frames, m \in Machines :
            /\ calls[f][m].attempts <= maxRetries
            /\ calls[f][m].result = "false" =>
                  /\ calls[f][m].attempts = maxRetries
                  /\ machines[m].resetRetryCount = 0
                  /\ ~machines[m].resetStatus)
    /\ [][\A f \in Frames, m \in Machines :
            AttemptBegins(f, m) =>
                \/ calls[f][m].pc = "none" /\ CycleStarts(f)
                \/ calls[f][m].pc = "retryWait"]_vars

\* a machine has given up after maxRetries attempts
C6_Witness ==
    \E f \in Frames, m \in Machines :
        /\ calls[f][m].result = "false"
        /\ calls[f][m].attempts = maxRetries
        /\ machines[m].resetRetryCount = 0

(* C7: every completion of a gateway call either continues the attempt or  *)
(* ends it as one failed attempt under the retry policy, whichever of      *)
(* connect, read, write and verification failed; a call never ends         *)
(* rejected, and a resolved call carries true or false.                    *)
C7_FailuresAreContained ==
    /\ [](\A f \in Frames, m \in Machines :
            /\ calls[f][m].pc # "rejected"
            /\ calls[f][m].pc = "resolved" <=> calls[f][m].result \in {"true", "false"})
    /\ [][\A f \in Frames, m \in Machines :
            LET before == calls[f][m].pc
                after == calls'[f][m].pc
            IN  before \in {"connect", "read", "write", "verify"} /\ after # before =>
                    \/ before = "connect" /\ after = "read"
                    \/ before = "read" /\ after = "write"
                    \/ before = "write" /\ after = "verify"
                    \/ before = "verify" /\ Succeeds(f, m)
                    \/ FailsAndRetries(f, m)
                    \/ FailsAndGivesUp(f, m)]_vars

\* a machine failed an attempt after its write got through (the
\* verification), its connect having failed in an earlier attempt
C7_Witness ==
    \E f \in Frames, m \in Machines :
        /\ calls[f][m].pc = "retryWait"
        /\ calls[f][m].wrote
        /\ calls[f][m].attempts >= 2
        /\ machines[m].resetRetryCount = calls[f][m].attempts

(* C8, as stated: a machine is reset successfully at most once on a        *)
(* calendar day.  The day of the machine's last success is                 *)
(* lastResetAttempt, so a success must not record the day it already holds.*)
C8_OneSuccessPerDay ==
    [][\A f \in Frames, m \in Machines :
          Succeeds(f, m) => machines'[m].lastResetAttempt # machines[m].lastResetAttempt]_vars

(* C8, amended: once lastResetDate is day T, no successful reset is        *)
(* recorded with lastResetAttempt on day T.                                *)
C8_NoSuccessAfterGuardSet ==
    [][\A f \in Frames, m \in Machines :
          Succeeds(f, m) => lastResetDate # machines'[m].lastResetAttempt]_vars

\* the guard was set on day 0 with every machine reset that day, a tick
\* inside the window was turned away, and the window of day 0 has passed
C8_Witness ==
    /\ lastResetDate = 0
    /\ clock.day = 0
    /\ ~InPrimaryWindow(clock)
    /\ lastDecision = "alreadyToday"
    /\ \A m \in Machines : machines[m].lastResetAttempt = 0

(* C9: an invocation starts a cycle exactly if resetInProgress is false,   *)
(* the clock is inside the primary window and lastResetDate is not the     *)
(* clock's day; any other invocation changes nothing of the service's      *)
(* state, so a pre-check tick outside the window starts no cycle.          *)
C9_StartsExactlyWhenDue ==
    [][LET due == /\ ~resetInProgress
                  /\ InPrimaryWindow(clock)
                  /\ ~DoneToday
           started == \E f \in Frames : CycleStarts(f)
       IN  /\ started => due /\ resetInProgress' /\ lastDecision' = "perform"
           /\ lastDecision' # lastDecision =>
                /\ lastDecision' = "perform" <=> due
                /\ lastDecision' = "perform" <=> started
                /\ ~due => UNCHANGED <<resetInProgress, lastResetDate, machines,
                                       isConnected, frames, calls>>]_vars

\* a pre-check tick after the window, with no reset done that day, started
\* nothing
C9_Witness ==
    /\ lastDecision = "outsideWindow"
    /\ ~InPrimaryWindow(clock)
    /\ preCheckSchedule(clock)
    /\ ~DoneToday
    /\ ~resetInProgress
    /\ RunningFrames = {}

(* C10: a call resolves to success only from the verification read of an   *)
(* attempt that wrote zero, and only if that read showed zero at the       *)
(* counter's place; the same step records lastResetAttempt, sets           *)
(* resetRetryCount to 0 and resetStatus to true.  Any other end of the     *)
(* verification read is a failed attempt.                                  *)
C10_SuccessOnlyWhenVerified ==
    [][\A f \in Frames, m \in Machines :
          /\ Succeeds(f, m) =>
                /\ calls[f][m].pc = "verify"
                /\ calls[f][m].wrote
                /\ calls'[f][m].seen = 0
                /\ machines'[m] = [lastResetAttempt |-> calls[f][m].now,
                                   resetRetryCount |-> 0,
                                   resetStatus |-> TRUE]
          /\ calls[f][m].pc = "verify" /\ calls'[f][m].pc # "verify" =>
                \/ Succeeds(f, m)
                \/ FailsAndRetries(f, m)
                \/ FailsAndGivesUp(f, m)]_vars

\* a call has resolved to success on a retry, after a failed attempt
C10_Witness ==
    \E f \in Frames, m \in Machines :
        /\ calls[f][m].result = "true"
        /\ calls[f][m].seen = 0
        /\ calls[f][m].attempts >= 2
        /\ machines[m].resetStatus
        /\ machines[m].resetRetryCount = 0
        /\ machines[m].lastResetAttempt = calls[f][m].now

(* C11: an attempt that begins while the machine is not connected issues   *)
(* connect first, and one that begins connected issues the read; a connect *)
(* that returns is followed by the read on a connected link, and a connect *)
(* that fails ends the attempt as one failed attempt (counted, then a      *)
(* retry or giving up) with no read and no write issued in it.             *)
C11_ConnectsBeforeRead ==
    [][\A f \in Frames, m \in Machines :
          /\ AttemptBegins(f, m) =>
                calls'[f][m].pc = (IF isConnected[m] THEN "read" ELSE "connect")
          /\ calls[f][m].pc = "connect" /\ calls'[f][m].pc # "connect" =>
                \/ calls'[f][m].pc = "read" /\ isConnected'[m]
                \/ /\ FailsAndRetries(f, m) \/ FailsAndGivesUp(f, m)
                   /\ ~calls'[f][m].wrote
                   /\ calls'[f][m].attempts = calls[f][m].attempts]_vars

\* a retry found the machine disconnected and waits for its connect
C11_Witness ==
    \E f \in Frames, m \in Machines :
        /\ calls[f][m].pc = "connect"
        /\ ~isConnected[m]
        /\ calls[f][m].attempts = 2
        /\ machines[m].resetRetryCount = 1

(* C12: the outcome of a call is the result of the last attempt of its     *)
(* chain.  The call has no outcome while an attempt or a retry timer is    *)
(* pending; it gets one in the step that ends its last attempt: true from  *)
(* the k-th attempt succeeding after k-1 counted failures, k at most       *)
(* maxRetries, false from giving up.  After that no further attempt        *)
(* begins and the outcome stays until the cycle returns.                   *)
C12_OutcomeIsLastAttempts ==
    /\ [](\A f \in Frames, m \in Machines :
            calls[f][m].pc = "resolved" =>
                (calls[f][m].result = "true" <=> machines[m].resetStatus))
    /\ [][\A f \in Frames, m \in Machines :
            /\ Succeeds(f, m) =>
                  /\ calls[f][m].attempts = machines[m].resetRetryCount + 1
                  /\ calls[f][m].attempts \in 1..maxRetries
                  /\ calls'[f][m].attempts = calls[f][m].attempts
                  /\ calls'[f][m].pc = "resolved"
            /\ calls'[f][m].result # calls[f][m].result =>
                  \/ calls[f][m].result = "none" /\ Succeeds(f, m)
                  \/ calls[f][m].result = "none" /\ FailsAndGivesUp(f, m)
                  \/ CycleConcludes(f) /\ calls'[f][m].result = "none"
            /\ calls[f][m].pc = "resolved" =>
                  \/ calls'[f][m] = calls[f][m]
                  \/ CycleConcludes(f)]_vars

\* a call resolved to success by its third attempt, two failures before it
C12_Witness ==
    \E f \in Frames, m \in Machines :
        /\ calls[f][m].pc = "resolved"
        /\ calls[f][m].result = "true"
        /\ calls[f][m].attempts = 3
        /\ machines[m].resetStatus
        /\ machines[m].resetRetryCount = 0

(* C14: a cycle concludes (the outcomes are evaluated, lastResetDate is    *)
(* possibly set, resetInProgress is cleared) only when the call on every   *)
(* machine has resolved, its chained retries included; while a call of the *)
(* running cycle is pending, resetInProgress and lastResetDate stay as     *)
(* they are.                                                               *)
C14_ConcludesAfterAllChains ==
    [][\A f \in Frames :
          LET pending == {m \in Machines : calls[f][m].pc # "resolved"} IN
          /\ CycleConcludes(f) =>
                /\ pending = {}
                /\ \A m \in Machines : calls[f][m].result \in {"true", "false"}
          /\ frames[f].pc = "running" /\ pending # {} =>
                /\ frames'[f] = frames[f]
                /\ resetInProgress' = resetInProgress
                /\ lastResetDate' = lastResetDate]_vars

\* one machine's call has resolved and the cycle waits for the last retry
\* of the other machine
C14_Witness ==
    \E f \in RunningFrames : \E m1, m2 \in Machines :
        /\ resetInProgress
        /\ calls[f][m1].pc = "resolved"
        /\ calls[f][m1].attempts = 1
        /\ calls[f][m2].pc \in {"connect", "read", "write", "verify"}
        /\ calls[f][m2].attempts = maxRetries

(* C15: on each machine attempts are strictly sequential: at most one call *)
(* on the machine is unresolved at a time, across the frames of all        *)
(* cycles, and an attempt begins only while no attempt on that machine     *)
(* has a gateway call outstanding: at the start of a cycle or from the     *)
(* retry timer of the machine's own failed attempt.                        *)
C15_AttemptsAreSequential ==
    /\ [](\A m \in Machines :
            Cardinality({f \in Frames : calls[f][m].pc \notin {"none", "resolved"}}) <= 1)
    /\ [][\A f \in Frames, m \in Machines :
            AttemptBegins(f, m) =>
                /\ \A g \in Frames :
                      calls[g][m].pc \notin {"connect", "read", "write", "verify"}
                /\ \A g \in Frames \ {f} : calls[g][m].pc \in {"none", "resolved"}
                /\ calls'[f][m].attempts = calls[f][m].attempts + 1]_vars

\* attempts on two machines are interleaved: one machine is in its second
\* attempt, past the write, while the other is still in its first, before it
C15_Witness ==
    \E f \in RunningFrames : \E m1, m2 \in Machines :
        /\ calls[f][m1].pc = "verify"
        /\ calls[f][m1].attempts = 2
        /\ calls[f][m2].pc \in {"connect", "read"}
        /\ calls[f][m2].attempts = 1

\* a call on some machine is unresolved: a gateway call is outstanding or a
\* retry timer is pending
ChainRunning == \E f \in Frames, m \in Machines : calls[f][m].pc \notin {"none", "resolved"}

(* C16, as stated: a retry chain can be running after the cycle has        *)
(* returned, so a state is reached in which resetInProgress is false while *)
(* a retry is pending or an attempt is in flight.                          *)
C16_ChainOutlivesCycle == <>(~resetInProgress /\ ChainRunning)

(* C16, amended: no retry chain outlives its cycle.  Whenever              *)
(* resetInProgress is false no call on any machine exists, pending or      *)
(* resolved; a chain that is running belongs to the one running cycle.     *)
C16_NoChainOutlivesCycle ==
    /\ ~resetInProgress => \A f \in Frames, m \in Machines : calls[f][m] = NoCall
    /\ ChainRunning => resetInProgress /\ RunningFrames # {}
    /\ \A f \in Frames \ RunningFrames, m \in Machines : calls[f][m] = NoCall

\* a cycle with a retry chain that ran to giving up has returned, the window
\* has passed (a later tick was turned away), and nothing of the chains is
\* left
C16_Witness ==
    /\ ~resetInProgress
    /\ lastDecision = "outsideWindow"
    /\ clock.day = 0
    /\ \E m \in Machines : machines[m].resetStatus /\ machines[m].lastResetAttempt = 0
    /\ \E m \in Machines : ~machines[m].resetStatus /\ machines[m].resetRetryCount = 0
    /\ \A f \in Frames, m \in Machines : calls[f][m] = NoCall

\* the attempts on m that have failed since m's last success or giving up:
\* the attempts its chain has begun, less the one still in flight; none once
\* the chain has resolved or when there is no chain
FailedSince(m) ==
    LET counts == {IF calls[f][m].pc \in {"connect", "read", "write", "verify"}
                   THEN calls[f][m].attempts - 1
                   ELSE IF calls[f][m].pc = "retryWait"
                   THEN calls[f][m].attempts
                   ELSE 0 : f \in Frames}
    IN  CHOOSE c \in counts : \A d \in counts : d <= c

(* C18: every machine's resetRetryCount lies in 0..maxRetries and is the   *)
(* number of consecutive failed attempts since the machine's last success  *)
(* or last giving up.                                                      *)
C18_RetryCountCountsFailures ==
    \A m \in Machines :
        /\ machines[m].resetRetryCount \in 0..maxRetries
        /\ machines[m].resetRetryCount = FailedSince(m)

\* one machine has failed maxRetries - 1 attempts in a row and waits for
\* its last retry; the other succeeded at its second attempt
C18_Witness ==
    \E f \in RunningFrames : \E m1, m2 \in Machines :
        /\ calls[f][m1].pc = "retryWait"
        /\ machines[m1].resetRetryCount = maxRetries - 1
        /\ calls[f][m2].result = "true"
        /\ calls[f][m2].attempts = 2
        /\ machines[m2].resetRetryCount = 0

(* C19, as stated: resetStatus is the outcome of the machine's most recent *)
(* completed attempt: false once an attempt of the running chain has       *)
(* failed, also while its retry is scheduled or in flight, and the call's  *)
(* outcome once the chain has resolved.                                    *)
C19_StatusIsLastAttempts ==
    \A f \in Frames, m \in Machines :
        /\ calls[f][m].pc = "retryWait" => ~machines[m].resetStatus
        /\ calls[f][m].pc \in {"connect", "read", "write", "verify"}
              /\ calls[f][m].attempts > 1 => ~machines[m].resetStatus
        /\ calls[f][m].pc = "resolved" =>
              (machines[m].resetStatus <=> calls[f][m].result = "true")

(* C19, amended: resetStatus is the outcome of the machine's most recent   *)
(* resolved call: it changes only in the step that resolves a call, to     *)
(* true by a success and to false by giving up; a failed attempt that      *)
(* schedules a retry leaves it as it was.                                  *)
C19_StatusIsLastCalls ==
    [][\A m \in Machines :
          /\ machines'[m].resetStatus # machines[m].resetStatus =>
                \E f \in Frames :
                    \/ Succeeds(f, m) /\ machines'[m].resetStatus
                    \/ FailsAndGivesUp(f, m) /\ ~machines'[m].resetStatus
          /\ \A f \in Frames :
                /\ calls'[f][m].pc = "retryWait" /\ calls[f][m].pc # "retryWait" =>
                      machines'[m].resetStatus = machines[m].resetStatus
                /\ calls'[f][m].pc = "resolved" =>
                      (machines'[m].resetStatus <=> calls'[f][m].result = "true")]_vars

\* a machine reset by an earlier cycle has failed an attempt of a later one
\* and waits for the retry, resetStatus still true
C19_Witness ==
    \E f \in RunningFrames, m \in Machines :
        /\ calls[f][m].pc = "retryWait"
        /\ machines[m].resetRetryCount >= 1
        /\ machines[m].resetStatus
        /\ machines[m].lastResetAttempt # null

(* C20: after an attempt on a machine has completed, succeeded or failed,  *)
(* lastResetAttempt is the time of that attempt: the time taken by the     *)
(* attempt that has just ended while the retry timer is pending or the     *)
(* call is resolved, and set once any attempt of the chain has completed.  *)
C20_LastAttemptIsRecorded ==
    \A f \in Frames, m \in Machines :
        /\ calls[f][m].pc \in {"retryWait", "resolved"} =>
              machines[m].lastResetAttempt = calls[f][m].now
        /\ calls[f][m].attempts > 1 => machines[m].lastResetAttempt # null

\* a step in which stop() is called, seen by the disconnect() it goes on to
StopBegins == stopAt = 0 /\ stopAt' > 0

(* C13: whatever lifecycle calls have been made, at most one primary and   *)
(* one pre-check cron task run, and they run exactly while the service     *)
(* holds them; a call that changes the tasks leaves one of each or none,   *)
(* and stop() leaves none.  stop() awaits disconnect() only on a machine   *)
(* that is connected when the loop comes to it and passes over every       *)
(* machine that is not.                                                    *)
C13_LifecycleIsIdempotent ==
    /\ [](/\ cronTasks.primary \in {0, 1}
          /\ cronTasks.preCheck \in {0, 1}
          /\ cronTasks.primary = 1 <=> scheduler
          /\ cronTasks.preCheck = 1 <=> preCheckScheduler)
    /\ [][/\ cronTasks' # cronTasks =>
                cronTasks' \in {NoTasks, [primary |-> 1, preCheck |-> 1]}
          /\ StopBegins => cronTasks' = NoTasks /\ ~scheduler' /\ ~preCheckScheduler'
          /\ stopAt' # stopAt =>
                /\ stopAt' > 0 => isConnected[machineOrder[stopAt']]
                /\ \A j \in (stopAt + 1)..Len(machineOrder) :
                      (stopAt' = 0 \/ j < stopAt') => ~isConnected[machineOrder[j]]]_vars

\* stop() was called with both tasks running: none runs any more, the first
\* machine, not connected, was passed over, and the disconnect() of the
\* second is awaited
C13_Witness ==
    /\ stopAt = 2
    /\ cronTasks = NoTasks
    /\ ~scheduler /\ ~preCheckScheduler
    /\ ~isConnected[machineOrder[1]]
    /\ isConnected[machineOrder[2]]
    /\ resetInProgress

\* the gateway call the chain of f on m waits for never returns
Hung(f, m) == calls[f][m].pc = "hung"

(* C17: when a gateway call of one machine never returns, the cycle it     *)
(* belongs to stays running with resetInProgress true: the call stays      *)
(* unanswered, the cycle does not conclude, and no invocation, on that day *)
(* or a later one, starts a cycle or begins an attempt outside the         *)
(* retries of the running chains.  The calls on the other machines of the  *)
(* cycle still resolve.                                                    *)
C17_HungCallBlocksCycles ==
    /\ [](\A f \in Frames, m \in Machines :
            Hung(f, m) => resetInProgress /\ frames[f].pc = "running")
    /\ [][\A f \in Frames, m \in Machines :
            Hung(f, m) =>
                /\ calls'[f][m] = calls[f][m]
                /\ ~CycleConcludes(f)
                /\ \A g \in Frames : ~CycleStarts(g)
                /\ lastDecision' # lastDecision => lastDecision' = "inProgress"
                /\ UNCHANGED <<resetInProgress, lastResetDate, frames>>]_vars
    /\ (\E f \in Frames, m \in Machines : Hung(f, m))
            ~> (\E f \in Frames, m \in Machines :
                    /\ Hung(f, m)
                    /\ \A n \in Machines \ {m} : calls[f][n].pc = "resolved")

\* a call hung on day 0; the clock has come to the window of day 1 with the
\* cycle still running, a tick having been turned away, and the other
\* machine's call has resolved
C17_Witness ==
    \E f \in RunningFrames, m \in Machines :
        /\ Hung(f, m)
        /\ frames[f].now = 0
        /\ clock.day = 1
        /\ InPrimaryWindow(clock)
        /\ lastDecision = "inProgress"
        /\ resetInProgress
        /\ \A n \in Machines \ {m} : calls[f][n].pc = "resolved"

(* C21: within an attempt the write of zero is issued only by the step in  *)
(* which the first read returned a block of at least minDataLength words;  *)
(* a read that throws or returns an empty or a short block ends the        *)
(* attempt as one failed attempt, no write having been issued in it.       *)
C21_WriteOnlyAfterValidRead ==
    /\ [](\A f \in Frames, m \in Machines :
            calls[f][m].pc \in {"write", "verify"} => calls[f][m].read >= minDataLength)
    /\ [][\A f \in Frames, m \in Machines :
            /\ calls'[f][m].pc = "write" /\ calls[f][m].pc # "write" =>
                  /\ calls[f][m].pc = "read"
                  /\ calls'[f][m].read >= minDataLength
                  /\ calls'[f][m].attempts = calls[f][m].attempts
            /\ calls[f][m].pc = "read" /\ calls'[f][m].pc \notin {"read", "write"} =>
                  /\ FailsAndRetries(f, m) \/ FailsAndGivesUp(f, m)
                  /\ ~calls'[f][m].wrote
            /\ calls'[f][m].wrote /\ ~calls[f][m].wrote => calls[f][m].pc = "write"]_vars

\* the second attempt of a call has read a full block and its write is out
C21_Witness ==
    \E f \in Frames, m \in Machines :
        /\ calls[f][m].pc = "write"
        /\ calls[f][m].read = minDataLength
        /\ calls[f][m].attempts = 2
        /\ ~calls[f][m].wrote

(* C22: the retries a machine used up in one cycle do not count against a  *)
(* later cycle, of the same day or another: a cycle that concludes leaves  *)
(* every resetRetryCount 0, a cycle that starts finds it 0 and begins the  *)
(* first attempt of a new chain on every machine, and a chain gives up     *)
(* only at its own attempt number maxRetries.                              *)
C22_FreshBudgetEachCycle ==
    [][\A f \in Frames :
          /\ CycleStarts(f) =>
                \A m \in Machines :
                    /\ machines[m].resetRetryCount = 0
                    /\ machines'[m] = machines[m]
                    /\ calls'[f][m].attempts = 1
          /\ CycleConcludes(f) =>
                \A m \in Machines : machines'[m].resetRetryCount = 0
          /\ \A m \in Machines :
                calls[f][m].result = "none" /\ calls'[f][m].result = "false" =>
                    calls[f][m].attempts = maxRetries]_vars

\* on day 0 a machine that gave up in an earlier cycle of the day is in the
\* last attempt of a later cycle, its attempt number 2 * maxRetries of the
\* day at least; the other machine, reset by the earlier cycle, is attempted
\* again
C22_Witness ==
    /\ clock.day = 0
    /\ \E f \in RunningFrames : \E m, n \in Machines :
          /\ frames[f].now = 0
          /\ ~machines[m].resetStatus
          /\ machines[m].resetRetryCount = maxRetries - 1
          /\ calls[f][m].attempts = maxRetries
          /\ calls[f][m].pc \in {"connect", "read", "write", "verify"}
          /\ machines[n].resetStatus
          /\ machines[n].lastResetAttempt = 0
          /\ calls[f][n].attempts = 1
          /\ calls[f][n].pc \in {"connect", "read"}

\* the time of day t lies in the 15 minutes that begin at h:mi, which run
\* into the next hour, and past midnight, when mi is above 45
InWindowInterval(h, mi, t) ==
    ((60 * t.hour + t.minute) + 1440 - (60 * h + mi)) % 1440 < 15

(* C23: for every target hour and minute the window check is true exactly  *)
(* for the times of day in the 15 minutes that begin at the target, and    *)
(* false for every other time.                                             *)
C23_WindowIsFifteenMinutes ==
    probe.within # "none" =>
        (probe.within = "true" <=>
            InWindowInterval(probe.resetHour, probe.resetMinute,
                             [hour |-> probe.hour, minute |-> probe.minute]))

\* a step of the call of f on m other than the start and the return of the
\* cycle: a gateway call completes or the retry timer fires
ChainSteps(f, m) == calls'[f][m] # calls[f][m] /\ frames'[f] = frames[f]

(* C24: a step of the reset sequence of one machine leaves every other     *)
(* machine's lastResetAttempt, resetRetryCount and resetStatus, and        *)
(* resetInProgress and lastResetDate, as they are.  A machine's reset      *)
(* state is changed only by a step of its own sequence, and                *)
(* resetInProgress and lastResetDate only by the start and the return of   *)
(* a cycle.                                                                *)
C24_SequenceChangesOwnStateOnly ==
    [][/\ \A f \in Frames, m \in Machines :
            ChainSteps(f, m) =>
                /\ \A n \in Machines \ {m} : machines'[n] = machines[n]
                /\ resetInProgress' = resetInProgress
                /\ lastResetDate' = lastResetDate
       /\ \A m \in Machines :
            machines'[m] # machines[m] =>
                \E f \in Frames :
                    /\ ChainSteps(f, m)
                    /\ calls[f][m].pc \in {"connect", "read", "write", "verify"}
       /\ resetInProgress' # resetInProgress \/ lastResetDate' # lastResetDate =>
            \E f \in Frames : CycleStarts(f) \/ CycleConcludes(f)]_vars

\* one machine has given up while the other, two failures counted, waits
\* for its retry
C24_Witness ==
    \E f \in RunningFrames : \E m, n \in Machines :
        /\ resetInProgress
        /\ calls[f][m].result = "false"
        /\ machines[m].resetRetryCount = 0
        /\ calls[f][n].pc = "retryWait"
        /\ machines[n].resetRetryCount = 2
        /\ lastResetDate = null

(* C25: whenever resetInProgress is false every machine's resetRetryCount  *)
(* is 0, so a cycle that starts finds the full number of attempts          *)
(* available on every machine.                                             *)
C25_IdleCountsAreZero ==
    ~resetInProgress => \A m \in Machines : machines[m].resetRetryCount = 0

\* the window of day 1 has come after a cycle of day 0 in which one machine
\* was reset and the other gave up; no cycle runs and both counts are 0
C25_Witness ==
    /\ ~resetInProgress
    /\ RunningFrames = {}
    /\ clock.day = 1
    /\ InPrimaryWindow(clock)
    /\ lastResetDate = null
    /\ \E m \in Machines : machines[m].resetStatus /\ machines[m].lastResetAttempt = 0
    /\ \E m \in Machines : ~machines[m].resetStatus
    /\ \A m \in Machines : machines[m].resetRetryCount = 0

\* a step in which the call of f on m issues a gateway operation
GatewayOpIssued(f, m) ==
    /\ calls'[f][m].pc \in {"connect", "read", "write", "verify"}
    /\ calls'[f][m].pc # calls[f][m].pc \/ calls'[f][m].attempts # calls[f][m].attempts

(* C26: once stop() has returned, no connect, read or write is issued on   *)
(* any machine and no machine that is disconnected becomes connected,      *)
(* also when stop() was called while a cycle had attempts or retry timers  *)
(* pending.                                                                *)
C26_QuietAfterStop ==
    [][stopReturned /\ stopReturned' =>
          /\ \A f \in Frames, m \in Machines : ~GatewayOpIssued(f, m)
          /\ \A m \in Machines : ~isConnected[m] => ~isConnected'[m]]_vars

====
